---- MODULE Spec2Model ----
(***************************************************************************)
(* Model of backend/proctoring.py: the per-user proctoring violation       *)
(* tracker (proctoring_violations guarded by proctoring_lock) and its      *)
(* three entry points initialize_proctoring_state, clear_proctoring_state  *)
(* and analyze_frame_proctoring, as called from backend/app.py.            *)
(*                                                                         *)
(* Scores are Python floats in the source.  They are modelled in fixed     *)
(* point, in units of 1/10000, with division rounded to nearest: 0.6 is    *)
(* 6000, 0.01 is 100.  All additive constants of the source (0.1, 0.15,    *)
(* 0.2, 0.3, 0.5, 0.55, 0.6 and a tenth of their sums) are exact in these  *)
(* units; only the two decay divisions (1.01 and 1.05) round.  The float   *)
(* sum previous + 0.1 * current, when it is 0.6 in exact arithmetic, is    *)
(* the double 0.6 on some paths (0.53 + 0.07) and a double above it on     *)
(* others (0.55 + 0.05 = 0.6000000000000001); a frame carries which of the *)
(* two its sum gives (round_up).                                           *)
(***************************************************************************)
EXTENDS Integers, Naturals, Sequences, FiniteSets, TLC

(* ---------------- bounds of the model ---------------- *)
\* longest run of zero-face (or multi-face) frames that is explored
MaxStreak == 4
\* number of endpoint requests the concurrent specification lets start
MaxCalls == 4
\* number of analyses the pose specification lets run
MaxPoseCalls == 6

Users   == {"u1", "u2"}
Threads == {"t1", "t2"}

(* ---------------- configuration constants (proctoring.py) ------------- *)
MAX_CONSECUTIVE_NO_FACE      == 3
MAX_CONSECUTIVE_MULTI_FACE   == 3
CHEAT_THRESH                 == 6000
\* a streak penalty of a sixth of the threshold (0.1) per frame
STREAK_PENALTY_INCREMENT_SMALL == CHEAT_THRESH \div 6
STREAK_PENALTY_INCREMENT     == 3000
MAX_HEAD_POSE_STREAK_PENALTY == 5
\* FAST_DECAY_DIVISOR = 1.05 and the slow divisor 1.01, as percentages
FAST_DECAY_DIVISOR           == 105
SLOW_DECAY_DIVISOR           == 101
\* min(current_val_for_avg, 5.0)
CURRENT_VAL_CLAMP            == 50000
\* avg(): "if previous > 1: return 0.65" and "if previous < 0.01: return 0.01"
AVG_PREVIOUS_LIMIT           == 10000
AVG_HARD_CAP                 == 6500
AVG_FLOOR                    == 100

Min(a, b) == IF a < b THEN a ELSE b

\* float division previous / (d/100), rounded to the nearest unit
DivRound(x, d) == (x * 200 + d) \div (2 * d)

(* ---------------- avg() ---------------- *)
\* avg() with the decay branch returning the previous score undiminished
avgNoDecay(current, previous, is_recovering_from_flagged) ==
    IF previous > AVG_PREVIOUS_LIMIT THEN AVG_HARD_CAP
    ELSE IF current = 0 THEN
             IF previous < AVG_FLOOR THEN AVG_FLOOR ELSE previous
    ELSE IF previous = 0 THEN current
    ELSE previous + current \div 10

\* avg() with the two early returns exchanged: 0.65 where 0.01 belongs
avgFloorIsCap(current, previous, is_recovering_from_flagged) ==
    IF previous > AVG_PREVIOUS_LIMIT THEN AVG_FLOOR
    ELSE IF current = 0 THEN
             IF previous < AVG_FLOOR THEN AVG_HARD_CAP
             ELSE IF is_recovering_from_flagged
                  THEN DivRound(previous, FAST_DECAY_DIVISOR)
                  ELSE DivRound(previous, SLOW_DECAY_DIVISOR)
    ELSE IF previous = 0 THEN current
    ELSE previous + current \div 10

\* avg() that ignores is_recovering_from_flagged: always the slow divisor
avgSlowRecovery(current, previous, is_recovering_from_flagged) ==
    IF previous > AVG_PREVIOUS_LIMIT THEN AVG_HARD_CAP
    ELSE IF current = 0 THEN
             IF previous < AVG_FLOOR THEN AVG_FLOOR
             ELSE DivRound(previous, SLOW_DECAY_DIVISOR)
    ELSE IF previous = 0 THEN current
    ELSE previous + current \div 10

\* avg() adding the whole of current instead of a tenth of it
avgFullWeight(current, previous, is_recovering_from_flagged) ==
    IF previous > AVG_PREVIOUS_LIMIT THEN AVG_HARD_CAP
    ELSE IF current = 0 THEN
             IF previous < AVG_FLOOR THEN AVG_FLOOR
             ELSE IF is_recovering_from_flagged
                  THEN DivRound(previous, FAST_DECAY_DIVISOR)
                  ELSE DivRound(previous, SLOW_DECAY_DIVISOR)
    ELSE IF previous = 0 THEN current
    ELSE previous + current

avg(current, previous, is_recovering_from_flagged) ==
    IF previous > AVG_PREVIOUS_LIMIT THEN AVG_HARD_CAP
    ELSE IF current = 0 THEN
             IF previous < AVG_FLOOR THEN AVG_FLOOR
             ELSE IF is_recovering_from_flagged
                  THEN DivRound(previous, FAST_DECAY_DIVISOR)
                  ELSE DivRound(previous, SLOW_DECAY_DIVISOR)
    ELSE IF previous = 0 THEN current
    ELSE previous + current \div 10

(* ---------------- session state records ---------------- *)
\* the dict literal written by initialize_proctoring_state
InitialState ==
    [no_face_streak |-> 0, multi_face_streak |-> 0, cheat_percentage |-> 0,
     global_cheat_flag |-> 0, head_pose_violation_streak |-> 0]

\* the dict literal written by analyze_frame_proctoring when the key is missing
ReinitializedState ==
    [no_face_streak |-> 0, multi_face_streak |-> 0, cheat_percentage |-> 0,
     global_cheat_flag |-> 0, head_pose_violation_streak |-> 0]

(* ---------------- frames: the output of steps 1 and 2 ---------------- *)
\* num_faces 2 stands for every count above one; round_up = 1: the float sum
\* of this frame's score update lands above 0.6 where the exact sum is 0.6
Frames ==
    {[num_faces |-> 0, yaw |-> 0, pitch |-> 0, round_up |-> 0],
     [num_faces |-> 2, yaw |-> 0, pitch |-> 0, round_up |-> 0]}
    \cup {[num_faces |-> 1, yaw |-> y, pitch |-> p, round_up |-> r] :
               y \in {0, 1}, p \in {0, 1}, r \in {0, 1}}

NoFrame == [num_faces |-> 0 - 1, yaw |-> 0, pitch |-> 0, round_up |-> 0]

(* ---------------- the nested table of 'process()' ---------------- *)
\* current_val_for_avg before the streak penalty; audio_cheat_flag is always 0
BaseCurrentVal(flag, yaw, pitch) ==
    IF flag = 0
    THEN IF yaw = 0 THEN (IF pitch = 0 THEN 0 ELSE 2000)
                    ELSE (IF pitch = 0 THEN 1000 ELSE 1500)
    ELSE IF yaw = 0 THEN (IF pitch = 0 THEN 0 ELSE 5500)
                    ELSE (IF pitch = 0 THEN 6000 ELSE 5000)

Reason(kind, n) == [kind |-> kind, n |-> n]

(* ---------------- analyze_frame_proctoring, step 3 ---------------- *)
\* the zero-face branch also writing 0.0 to the stored score
NoFaceStateZeroScore(s) ==
    [s EXCEPT !.no_face_streak = s.no_face_streak + 1,
              !.multi_face_streak = 0,
              !.head_pose_violation_streak = 0,
              !.cheat_percentage = 0]

\* the zero-face branch writing the flag, but not the score, at the limit
NoFaceStateSetsFlag(s) ==
    [s EXCEPT !.no_face_streak = s.no_face_streak + 1,
              !.multi_face_streak = 0,
              !.head_pose_violation_streak = 0,
              !.global_cheat_flag =
                  IF s.no_face_streak + 1 >= MAX_CONSECUTIVE_NO_FACE
                  THEN 1 ELSE s.global_cheat_flag]

\* zero-face branch: only the streaks are written to the state dict;
\* current_cheat_percentage and current_global_cheat_flag are locals
NoFaceState(s) ==
    [s EXCEPT !.no_face_streak = s.no_face_streak + 1,
              !.multi_face_streak = 0,
              !.head_pose_violation_streak = 0]

\* the limit test written with > instead of >=
NoFaceLimitReachedStrict(n) == n > MAX_CONSECUTIVE_NO_FACE

\* the limit reached one frame early
NoFaceLimitReachedEarly(n) == n >= MAX_CONSECUTIVE_NO_FACE - 1

NoFaceLimitReached(n) == n >= MAX_CONSECUTIVE_NO_FACE

\* the multi-face branch without the reset of the other face-count streak
MultiFaceStateKeepsNoFace(s) ==
    [s EXCEPT !.multi_face_streak = s.multi_face_streak + 1,
              !.head_pose_violation_streak = 0]

MultiFaceState(s) ==
    [s EXCEPT !.multi_face_streak = s.multi_face_streak + 1,
              !.no_face_streak = 0,
              !.head_pose_violation_streak = 0]

\* the multi-face limit test written with > instead of >=
MultiFaceLimitReachedStrict(n) == n > MAX_CONSECUTIVE_MULTI_FACE

MultiFaceLimitReached(n) == n >= MAX_CONSECUTIVE_MULTI_FACE

\* the streak update without the reset on a frame with no pose violation
StreakAfterPoseNoReset(s, f) ==
    IF f.yaw = 1 \/ f.pitch = 1
    THEN Min(s.head_pose_violation_streak + 1, MAX_HEAD_POSE_STREAK_PENALTY)
    ELSE s.head_pose_violation_streak

\* head_pose_violation_streak after "Update Head Pose Violation Streak"
StreakAfterPose(s, f) ==
    IF f.yaw = 1 \/ f.pitch = 1
    THEN Min(s.head_pose_violation_streak + 1, MAX_HEAD_POSE_STREAK_PENALTY)
    ELSE IF ~(s.cheat_percentage > CHEAT_THRESH)
         THEN 0
         ELSE s.head_pose_violation_streak

\* current_val_for_avg with the streak penalty left out
CurrentValNoPenalty(s, f) == BaseCurrentVal(s.global_cheat_flag, f.yaw, f.pitch)

\* current_val_for_avg after "Apply streak penalty"
CurrentVal(s, f) ==
    LET base   == BaseCurrentVal(s.global_cheat_flag, f.yaw, f.pitch)
        streak == StreakAfterPose(s, f)
    IN  IF streak > 0
        THEN Min(base + streak * STREAK_PENALTY_INCREMENT, CURRENT_VAL_CLAMP)
        ELSE base

\* avg(current_val_for_avg, current_cheat_percentage, ...) in exact arithmetic
ExactCheatPercentage(s, f) ==
    LET cur == CurrentVal(s, f)
    IN  avg(cur, s.cheat_percentage, s.global_cheat_flag = 1 /\ cur = 0)

\* new_cheat_percentage as the float the code compares with CHEAT_THRESH: an
\* exact 0.6 whose float sum rounds up is the next value above the threshold
NewCheatPercentage(s, f) ==
    LET exact == ExactCheatPercentage(s, f)
    IN  IF exact = CHEAT_THRESH /\ f.round_up = 1 THEN exact + 1 ELSE exact

\* the frame's round-off decides something: one face, exact sum on the threshold
RoundOffMatters(s, f) == f.num_faces = 1 /\ ExactCheatPercentage(s, f) = CHEAT_THRESH

\* the flag test taken as "at or above the threshold"
AtOrOverThreshold(x) == x >= CHEAT_THRESH

OverThreshold(x) == x > CHEAT_THRESH

\* the score stored without the cap
CapScoreNone(x) == x

\* the cap applied at avg()'s 0.65 instead of at the threshold
CapScoreAtHardCap(x) == IF x > AVG_HARD_CAP THEN AVG_HARD_CAP ELSE x

\* a score over the threshold stored as 0.0 instead of the threshold
CapScoreResets(x) == IF x > CHEAT_THRESH THEN 0 ELSE x

\* the cap applied to state['cheat_percentage'] for the next frame
CapScore(x) == IF x > CHEAT_THRESH THEN CHEAT_THRESH ELSE x

\* the single-face branch without the streak reset on a flagged frame
SingleFaceStateKeepsStreak(s, f) ==
    LET new == NewCheatPercentage(s, f)
    IN  [no_face_streak |-> 0,
         multi_face_streak |-> 0,
         cheat_percentage |-> CapScore(new),
         global_cheat_flag |-> IF OverThreshold(new) THEN 1 ELSE 0,
         head_pose_violation_streak |-> StreakAfterPose(s, f)]

SingleFaceState(s, f) ==
    LET new == NewCheatPercentage(s, f)
    IN  [no_face_streak |-> 0,
         multi_face_streak |-> 0,
         cheat_percentage |-> CapScore(new),
         global_cheat_flag |-> IF OverThreshold(new) THEN 1 ELSE 0,
         head_pose_violation_streak |->
             IF OverThreshold(new) THEN 0 ELSE StreakAfterPose(s, f)]

\* the reason built from the yaw flag alone
HeadReasonYawFirst(f) ==
    IF f.yaw = 1 THEN Reason("Head turned away", 0)
    ELSE IF f.pitch = 1 THEN Reason("Head looking down", 0)
    ELSE Reason("Suspicious activity", 0)

HeadReason(f) ==
    IF f.yaw = 1 /\ f.pitch = 1 THEN Reason("Head turned away and looking down", 0)
    ELSE IF f.yaw = 1 THEN Reason("Head turned away", 0)
    ELSE IF f.pitch = 1 THEN Reason("Head looking down", 0)
    ELSE Reason("Suspicious activity", 0)

\* the state dict of the user after step 3, from the dict s it had at the start
AnalyzeState(s, f) ==
    IF f.num_faces = 0 THEN NoFaceState(s)
    ELSE IF f.num_faces > 1 THEN MultiFaceState(s)
    ELSE SingleFaceState(s, f)

\* the dict returned by a successful analysis
AnalyzeVerdict(s, f) ==
    LET t == AnalyzeState(s, f)
        cheating ==
            IF f.num_faces = 0 THEN NoFaceLimitReached(t.no_face_streak)
            ELSE IF f.num_faces > 1 THEN MultiFaceLimitReached(t.multi_face_streak)
            ELSE OverThreshold(NewCheatPercentage(s, f))
        reason ==
            IF ~cheating THEN Reason("OK", 0)
            ELSE IF f.num_faces = 0 THEN Reason("No face detected", t.no_face_streak)
            ELSE IF f.num_faces > 1
                 THEN Reason("Multiple faces detected", t.multi_face_streak)
            ELSE HeadReason(f)
    IN  [success |-> TRUE,
         cheating_detected |-> cheating,
         reason |-> reason,
         num_faces |-> f.num_faces,
         head_pose_score |-> t.cheat_percentage]

(* ---------------- the shared dict and its three operations ------------- *)
VARIABLES
    proctoring_violations,  \* dict: user_id -> state dict (domain = keys present)
    proctoring_lock,        \* the thread holding threading.Lock(), or Free
    pc,                     \* per request thread: "idle", "wait" (before the
                            \* with statement) or "locked" (inside it)
    call,                   \* per request thread: the call it is executing
    done,                   \* per request thread: its last completed call, what
                            \* it returned, and the operation that was applied
                            \* to the same user just before it
    lastop,                 \* per user: the last operation applied to the user
    active,                 \* per user, kept by the endpoints of app.py:
                            \* take has initialized the user and no
                            \* submit/cancel has cleared it since
    ncalls,                 \* requests started by the endpoints of app.py
    run                     \* per user: the runs of frames just analyzed

vars == <<proctoring_violations, proctoring_lock, pc, call, done, lastop,
          active, ncalls, run>>

Free == "free"

NoCall == [op |-> "none", user |-> "none", frame |-> NoFrame]

\* initialize_ and clear_proctoring_state return None
None == [success |-> FALSE, cheating_detected |-> FALSE, reason |-> Reason("None", 0),
         num_faces |-> 0, head_pose_score |-> 0]

\* the dict returned by the "except Exception" handler
ServerError ==
    [success |-> FALSE, cheating_detected |-> FALSE,
     reason |-> Reason("Server Error", 0), num_faces |-> 0, head_pose_score |-> 0]

Put(d, u, s) == [v \in DOMAIN d \cup {u} |-> IF v = u THEN s ELSE d[v]]

Del(d, u) == [v \in DOMAIN d \ {u} |-> d[v]]

\* initialize that keeps an existing entry (setdefault instead of assignment)
InitializeDictIfMissing(d, u) == IF u \in DOMAIN d THEN d ELSE Put(d, u, InitialState)

\* proctoring_violations after the body of initialize_proctoring_state
InitializeDict(d, u) == Put(d, u, InitialState)

\* clear that deletes nothing
ClearDictKeep(d, u) == d

\* clear that empties the whole dict
ClearDictAll(d, u) == [v \in {} |-> InitialState]

\* proctoring_violations after the body of clear_proctoring_state
ClearDict(d, u) == IF u \in DOMAIN d THEN Del(d, u) ELSE d

\* analyze without the re-initialization of a missing entry
EnsureStateSkipped(d, u) == d

\* "if user_id not in proctoring_violations: proctoring_violations[user_id] = {...}"
EnsureState(d, u) == IF u \notin DOMAIN d THEN Put(d, u, ReinitializedState) ELSE d

\* proctoring_violations after the with block of analyze_frame_proctoring;
\* state = proctoring_violations[user_id] raises KeyError on a missing key,
\* which leaves the dict as it is
AnalyzeDict(d, u, f) ==
    LET e == EnsureState(d, u)
    IN  IF u \in DOMAIN e THEN Put(e, u, AnalyzeState(e[u], f)) ELSE e

\* what analyze_frame_proctoring returns for a frame that decodes
AnalyzeReturn(d, u, f) ==
    LET e == EnsureState(d, u)
    IN  IF u \in DOMAIN e THEN AnalyzeVerdict(e[u], f) ELSE ServerError

(* ---------------- history kept for the properties ---------------- *)
\* no_face / multi_face: consecutive zero-face / multi-face analyses just
\* completed.  sustained: length of the run of single-face frames with the yaw
\* flag set that started right after initialize and has not been answered
\* with cheating_detected before its last frame (-1: not in such a run);
\* hit: the last frame of that run returned cheating_detected; yaw_only: no
\* frame of the run had the pitch flag set.  ok: the analysis just completed
\* was of a single-face frame without pose violation and returned
\* cheating_detected = false; after_ok: the analysis before it was.  clean:
\* the session was initialized and no frame analyzed since had a pose flag set;
\* flagged: the analysis just completed was of a single-face frame and returned
\* cheating_detected = true; after_flagged: the analysis before it was;
\* pose_run: consecutive single-face frames with a pose flag just analyzed and
\* all answered cheating_detected = false; pose_hit: when the analysis just
\* completed ended such a run with cheating_detected = true, the position of
\* its frame in the run (0 otherwise)
NoRun == [no_face |-> 0, multi_face |-> 0, sustained |-> 0 - 1, hit |-> FALSE,
          yaw_only |-> TRUE, ok |-> FALSE, after_ok |-> FALSE, clean |-> FALSE,
          flagged |-> FALSE, after_flagged |-> FALSE,
          pose_run |-> 0, pose_hit |-> 0]

FreshRun == [NoRun EXCEPT !.sustained = 0, !.clean = TRUE]

RunAfter(r, f, cheating) ==
    LET inrun == f.num_faces = 1 /\ f.yaw = 1 /\ r.sustained >= 0 /\ ~r.hit
    IN  [no_face    |-> IF f.num_faces = 0 THEN r.no_face + 1 ELSE 0,
         multi_face |-> IF f.num_faces > 1 THEN r.multi_face + 1 ELSE 0,
         sustained  |-> IF inrun THEN r.sustained + 1 ELSE 0 - 1,
         hit        |-> inrun /\ cheating,
         yaw_only   |-> IF inrun THEN r.yaw_only /\ f.pitch = 0 ELSE TRUE,
         ok         |-> f.num_faces = 1 /\ f.yaw = 0 /\ f.pitch = 0 /\ ~cheating,
         after_ok   |-> r.ok,
         clean      |-> r.clean /\ ~(f.num_faces = 1 /\ (f.yaw = 1 \/ f.pitch = 1)),
         flagged       |-> f.num_faces = 1 /\ cheating,
         after_flagged |-> r.flagged,
         pose_run |-> IF f.num_faces = 1 /\ (f.yaw = 1 \/ f.pitch = 1) /\ ~cheating
                      THEN r.pose_run + 1 ELSE 0,
         pose_hit |-> IF f.num_faces = 1 /\ (f.yaw = 1 \/ f.pitch = 1) /\ cheating
                      THEN r.pose_run + 1 ELSE 0]

Completed(c, ret, after) == [call |-> c, ret |-> ret, after |-> after]

Init ==
    /\ proctoring_violations = [u \in {} |-> InitialState]
    /\ proctoring_lock = Free
    /\ pc = [t \in Threads |-> "idle"]
    /\ call = [t \in Threads |-> NoCall]
    /\ done = [t \in Threads |-> Completed(NoCall, None, "none")]
    /\ lastop = [u \in Users |-> "none"]
    /\ active = [u \in Users |-> FALSE]
    /\ ncalls = 0
    /\ run = [u \in Users |-> NoRun]

(* ---- the tracker alone, one call at a time, each from call to return ---- *)
\* initialize_proctoring_state(user_id)
Initialize(t, u) ==
    /\ pc[t] = "idle" /\ proctoring_lock = Free
    /\ proctoring_violations' = InitializeDict(proctoring_violations, u)
    /\ done' = [done EXCEPT ![t] =
                   Completed([op |-> "initialize", user |-> u, frame |-> NoFrame],
                             None, lastop[u])]
    /\ lastop' = [lastop EXCEPT ![u] = "initialize"]
    /\ run' = [run EXCEPT ![u] = FreshRun]
    /\ UNCHANGED <<proctoring_lock, pc, call, active, ncalls>>

\* clear_proctoring_state(user_id)
Clear(t, u) ==
    /\ pc[t] = "idle" /\ proctoring_lock = Free
    /\ proctoring_violations' = ClearDict(proctoring_violations, u)
    /\ done' = [done EXCEPT ![t] =
                   Completed([op |-> "clear", user |-> u, frame |-> NoFrame],
                             None, lastop[u])]
    /\ lastop' = [lastop EXCEPT ![u] = "clear"]
    /\ run' = [run EXCEPT ![u] = NoRun]
    /\ UNCHANGED <<proctoring_lock, pc, call, active, ncalls>>

\* analyze_frame_proctoring(user_id, frame) on a frame that decodes
Analyze(t, u, f) ==
    /\ pc[t] = "idle" /\ proctoring_lock = Free
    /\ f.num_faces = 0 => run[u].no_face < MaxStreak
    /\ f.num_faces > 1 => run[u].multi_face < MaxStreak
    /\ f.round_up = 1 =>
           RoundOffMatters(IF u \in DOMAIN proctoring_violations
                           THEN proctoring_violations[u]
                           ELSE ReinitializedState, f)
    /\ proctoring_violations' = AnalyzeDict(proctoring_violations, u, f)
    /\ LET ret == AnalyzeReturn(proctoring_violations, u, f)
       IN  /\ done' = [done EXCEPT ![t] =
                          Completed([op |-> "analyze", user |-> u, frame |-> f],
                                    ret, lastop[u])]
           /\ run' = [run EXCEPT ![u] = RunAfter(run[u], f, ret.cheating_detected)]
    /\ lastop' = [lastop EXCEPT ![u] = "analyze"]
    /\ UNCHANGED <<proctoring_lock, pc, call, active, ncalls>>

\* the single client of the sequential specification
SeqThread == "t1"
SeqUser   == "u1"

Next ==
    \/ Initialize(SeqThread, SeqUser)
    \/ Clear(SeqThread, SeqUser)
    \/ \E f \in Frames : Analyze(SeqThread, SeqUser, f)

Spec == Init /\ [][Next]_vars

(* ---- the tracker with frames that cannot be analyzed ---- *)
\* how steps 1 and 2 end without a face count: no frame data, a data URL
\* that does not split or decode as base64, bytes that cv2.imdecode rejects,
\* or an exception raised by the image and landmark libraries
RejectKinds == {"missing", "invalid_base64", "undecodable", "exception"}

\* the dict returned on each of these paths (the message text is left out)
RejectedReturn(k) ==
    [success |-> FALSE, cheating_detected |-> FALSE,
     reason |-> IF k = "missing" THEN Reason("Input Error", 0)
                ELSE IF k = "exception" THEN Reason("Server Error", 0)
                ELSE Reason("Decode Error", 0),
     num_faces |-> 0, head_pose_score |-> 0]

\* a rejected frame with the missing entry created before the frame is decoded
RejectedDictCreates(d, u, k) == EnsureState(d, u)

\* proctoring_violations after a rejected frame: every such path returns
\* before the with statement is reached
RejectedDict(d, u, k) == d

\* analyze_frame_proctoring(user_id, frame) on a frame that is rejected
AnalyzeRejected(t, u, k) ==
    /\ pc[t] = "idle" /\ proctoring_lock = Free
    /\ proctoring_violations' = RejectedDict(proctoring_violations, u, k)
    /\ done' = [done EXCEPT ![t] =
                   Completed([op |-> "analyze_error", user |-> u, frame |-> NoFrame],
                             RejectedReturn(k), lastop[u])]
    /\ UNCHANGED <<proctoring_lock, pc, call, lastop, active, ncalls, run>>

\* frames fed beside the rejected ones: no face, several faces, one face
\* turned away
RejectFrames == {f \in Frames : f.pitch = 0 /\ (f.num_faces = 1 => f.yaw = 1)}

RejectNext ==
    \/ Initialize(SeqThread, SeqUser)
    \/ Clear(SeqThread, SeqUser)
    \/ \E f \in RejectFrames : Analyze(SeqThread, SeqUser, f)
    \/ \E k \in RejectKinds : AnalyzeRejected(SeqThread, SeqUser, k)

SpecReject == Init /\ [][RejectNext]_vars

(* ---------------- analyze_frame_proctoring, step 2 ---------------- *)
\* head angles in whole degrees, after the scaling by 360
HEAD_POSE_YAW_THRESHOLD        == 50
HEAD_POSE_PITCH_DOWN_THRESHOLD == 0 - 15
HEAD_POSE_PITCH_UP_THRESHOLD   == 7000

Abs(x) == IF x < 0 THEN 0 - x ELSE x

\* the yaw test written with >= instead of >
YawViolationFlagAtThreshold(head_yaw) ==
    IF Abs(head_yaw) >= HEAD_POSE_YAW_THRESHOLD THEN 1 ELSE 0

YawViolationFlag(head_yaw) ==
    IF Abs(head_yaw) > HEAD_POSE_YAW_THRESHOLD THEN 1 ELSE 0

\* the pitch test of the debug print, which also counts looking up
PitchViolationFlagUpToo(head_pitch) ==
    IF \/ head_pitch < HEAD_POSE_PITCH_DOWN_THRESHOLD
       \/ head_pitch > HEAD_POSE_PITCH_UP_THRESHOLD
    THEN 1 ELSE 0

PitchViolationFlag(head_pitch) ==
    IF head_pitch < HEAD_POSE_PITCH_DOWN_THRESHOLD THEN 1 ELSE 0

\* angles sampled on both sides of each threshold, and one far upward pitch
YawSamples   == {0 - 51, 0 - 50, 0, 50, 51}
PitchSamples == {0 - 16, 0 - 15, 0, 7001}

\* what steps 1 and 2 measure on a single-face frame: the head angles
Measurements ==
    {[num_faces |-> 1, head_yaw |-> y, head_pitch |-> p, round_up |-> 0] :
         y \in YawSamples, p \in PitchSamples}

\* the frame as step 3 sees it
PoseFrame(m) ==
    [num_faces |-> m.num_faces,
     yaw       |-> YawViolationFlag(m.head_yaw),
     pitch     |-> PitchViolationFlag(m.head_pitch),
     round_up  |-> m.round_up]

\* analyze_frame_proctoring(user_id, frame) from the measured angles on
AnalyzePose(t, u, m) ==
    LET f == PoseFrame(m)
    IN  /\ pc[t] = "idle" /\ proctoring_lock = Free
        /\ ncalls < MaxPoseCalls
        /\ ncalls' = ncalls + 1
        /\ f.round_up = 1 =>
               RoundOffMatters(IF u \in DOMAIN proctoring_violations
                               THEN proctoring_violations[u]
                               ELSE ReinitializedState, f)
        /\ proctoring_violations' = AnalyzeDict(proctoring_violations, u, f)
        /\ LET ret == AnalyzeReturn(proctoring_violations, u, f)
           IN  /\ done' = [done EXCEPT ![t] =
                              Completed([op |-> "analyze", user |-> u, frame |-> f,
                                         head_yaw |-> m.head_yaw,
                                         head_pitch |-> m.head_pitch],
                                        ret, lastop[u])]
               /\ run' = [run EXCEPT ![u] = RunAfter(run[u], f, ret.cheating_detected)]
        /\ lastop' = [lastop EXCEPT ![u] = "analyze"]
        /\ UNCHANGED <<proctoring_lock, pc, call, active>>

PoseNext ==
    \/ Initialize(SeqThread, SeqUser)
    \/ \E m \in Measurements : AnalyzePose(SeqThread, SeqUser, m)

SpecPose == Init /\ [][PoseNext]_vars

(* ---- the endpoints of app.py on concurrent request threads ---- *)
\* frames the concurrent specification feeds: no face, one compliant face,
\* one face turned away
ConcFrames == {f \in Frames : f.pitch = 0 /\ f.num_faces < 2 /\ f.round_up = 0}

\* zero-face (multi-face) analyses of user u that are called but not yet applied
InFlight(u, faces) ==
    Cardinality({t \in Threads : /\ pc[t] # "idle"
                                 /\ call[t].op = "analyze"
                                 /\ call[t].user = u
                                 /\ call[t].frame.num_faces = faces})

Enter(t, c) ==
    /\ pc[t] = "idle"
    /\ ncalls < MaxCalls
    /\ ncalls' = ncalls + 1
    /\ pc' = [pc EXCEPT ![t] = "wait"]
    /\ call' = [call EXCEPT ![t] = c]
    /\ UNCHANGED <<proctoring_violations, proctoring_lock, done, lastop, active, run>>

\* take_exam reaches proctoring.initialize_proctoring_state(student.id)
TakeCall(t, u) ==
    Enter(t, [op |-> "initialize", user |-> u, frame |-> NoFrame])

\* submit_exam_answers / cancel reach proctoring.clear_proctoring_state(user_id)
SubmitCall(t, u) ==
    Enter(t, [op |-> "clear", user |-> u, frame |-> NoFrame])

\* analyze_frame calls analyze_frame_proctoring; steps 1 and 2 (decoding, face
\* count, head pose) run before the with statement
AnalyzeCall(t, u, f) ==
    /\ f.num_faces = 0 => run[u].no_face + InFlight(u, 0) < MaxStreak
    /\ f.num_faces > 1 => run[u].multi_face + InFlight(u, 2) < MaxStreak
    /\ Enter(t, [op |-> "analyze", user |-> u, frame |-> f])

\* a with statement that does not wait for the lock
LockAlwaysAvailable(t) == TRUE

\* may thread t enter "with proctoring_lock"
LockAvailable(t) == proctoring_lock = Free

\* a block entered without taking the lock
AcquireWithoutLock(t) ==
    /\ pc[t] = "wait"
    /\ pc' = [pc EXCEPT ![t] = "locked"]
    /\ UNCHANGED <<proctoring_violations, proctoring_lock, call, done, lastop,
                   active, ncalls, run>>

\* with proctoring_lock: (acquire)
Acquire(t) ==
    /\ pc[t] = "wait"
    /\ LockAvailable(t)
    /\ proctoring_lock' = t
    /\ pc' = [pc EXCEPT ![t] = "locked"]
    /\ UNCHANGED <<proctoring_violations, call, done, lastop, active, ncalls, run>>

\* the end of a with block: the call returns ret and the lock is released
Leave(t, ret) ==
    /\ pc' = [pc EXCEPT ![t] = "idle"]
    /\ proctoring_lock' = IF proctoring_lock = t THEN Free ELSE proctoring_lock
    /\ done' = [done EXCEPT ![t] = Completed(call[t], ret, lastop[call[t].user])]
    /\ lastop' = [lastop EXCEPT ![call[t].user] = call[t].op]
    /\ UNCHANGED <<call, ncalls>>

\* body of initialize_proctoring_state
InitializeLocked(t) ==
    /\ pc[t] = "locked" /\ call[t].op = "initialize"
    /\ proctoring_violations' = InitializeDict(proctoring_violations, call[t].user)
    /\ active' = [active EXCEPT ![call[t].user] = TRUE]
    /\ run' = [run EXCEPT ![call[t].user] = FreshRun]
    /\ Leave(t, None)

\* body of clear_proctoring_state
ClearLocked(t) ==
    /\ pc[t] = "locked" /\ call[t].op = "clear"
    /\ proctoring_violations' = ClearDict(proctoring_violations, call[t].user)
    /\ active' = [active EXCEPT ![call[t].user] = FALSE]
    /\ run' = [run EXCEPT ![call[t].user] = NoRun]
    /\ Leave(t, None)

\* step 3 of analyze_frame_proctoring
AnalyzeLocked(t) ==
    /\ pc[t] = "locked" /\ call[t].op = "analyze"
    /\ proctoring_violations' =
           AnalyzeDict(proctoring_violations, call[t].user, call[t].frame)
    /\ LET ret == AnalyzeReturn(proctoring_violations, call[t].user, call[t].frame)
       IN  /\ run' = [run EXCEPT ![call[t].user] =
                         RunAfter(run[call[t].user], call[t].frame,
                                  ret.cheating_detected)]
           /\ Leave(t, ret)
    /\ UNCHANGED active

ConcNext ==
    \E t \in Threads :
        \/ \E u \in Users : TakeCall(t, u)
        \/ \E u \in Users : SubmitCall(t, u)
        \/ \E u \in Users : \E f \in ConcFrames : AnalyzeCall(t, u, f)
        \/ Acquire(t)
        \/ InitializeLocked(t)
        \/ ClearLocked(t)
        \/ AnalyzeLocked(t)

SpecConc == Init /\ [][ConcNext]_vars

\* the last call completed by the client of the sequential specification
(* ---- the with block of analyze_frame_proctoring, statement by statement ---- *)
ZeroFaceFrame == [num_faces |-> 0, yaw |-> 0, pitch |-> 0, round_up |-> 0]

\* analyze_frame reaches the with statement with a zero-face frame; read is
\* the value "+= 1" has loaded (-1: none yet), overlapped records that another
\* zero-face analysis of the same user was in flight when this one started
RaceCall(t, u) ==
    /\ run[u].no_face + InFlight(u, 0) < MaxStreak
    /\ Enter(t, [op |-> "analyze", user |-> u, frame |-> ZeroFaceFrame,
                 read |-> 0 - 1, overlapped |-> InFlight(u, 0) > 0])

\* the start of the block: the missing entry is re-created, state is bound to
\* the user's dict and "state['no_face_streak'] += 1" loads the old value
ReadStreak(t) ==
    /\ pc[t] = "locked" /\ call[t].op = "analyze"
    /\ LET e == EnsureState(proctoring_violations, call[t].user)
       IN  /\ proctoring_violations' = e
           /\ call' = [call EXCEPT ![t] =
                          [op |-> "analyze", user |-> call[t].user,
                           frame |-> call[t].frame,
                           read |-> e[call[t].user].no_face_streak,
                           overlapped |-> call[t].overlapped]]
    /\ pc' = [pc EXCEPT ![t] = "inblock"]
    /\ UNCHANGED <<proctoring_lock, done, lastop, active, ncalls, run>>

\* the rest of the block: "+= 1" stores the loaded value plus one, the other
\* streaks are reset, the limit is tested on the stored value, the verdict is
\* built and the lock is released
WriteStreak(t) ==
    /\ pc[t] = "inblock"
    /\ LET u == call[t].user
           e == EnsureState(proctoring_violations, u)
           d == Put(e, u, [e[u] EXCEPT !.no_face_streak = call[t].read])
           ret == AnalyzeReturn(d, u, call[t].frame)
       IN  /\ proctoring_violations' = AnalyzeDict(d, u, call[t].frame)
           /\ run' = [run EXCEPT ![u] =
                         RunAfter(run[u], call[t].frame, ret.cheating_detected)]
           /\ Leave(t, ret)
    /\ UNCHANGED active

RaceNext ==
    \E t \in Threads :
        \/ \E u \in Users : RaceCall(t, u)
        \/ Acquire(t)
        \/ ReadStreak(t)
        \/ WriteStreak(t)

SpecRace == Init /\ [][RaceNext]_vars

(* ---- analyze against initialize and clear of the same user ---- *)
SplitUsers == {SeqUser}

\* a request reaches its with statement; overlapped records that another
\* request for the same user was in flight at that moment
SplitCall(t, c) ==
    Enter(t, [op |-> c.op, user |-> c.user, frame |-> c.frame,
              overlapped |-> \E s \in Threads \ {t} :
                                 pc[s] # "idle" /\ call[s].user = c.user])

SplitTake(t, u) == SplitCall(t, [op |-> "initialize", user |-> u, frame |-> NoFrame])

SplitSubmit(t, u) == SplitCall(t, [op |-> "clear", user |-> u, frame |-> NoFrame])

SplitAnalyze(t, u, f) ==
    /\ f.num_faces = 0 => run[u].no_face + InFlight(u, 0) < MaxStreak
    /\ SplitCall(t, [op |-> "analyze", user |-> u, frame |-> f])

\* clear_proctoring_state running its body without the with statement
ClearUnlocked(t) ==
    /\ pc[t] = "wait" /\ call[t].op = "clear"
    /\ proctoring_violations' = ClearDict(proctoring_violations, call[t].user)
    /\ active' = [active EXCEPT ![call[t].user] = FALSE]
    /\ run' = [run EXCEPT ![call[t].user] = NoRun]
    /\ Leave(t, None)

\* clear_proctoring_state inside its with statement
ClearBody(t) == ClearLocked(t)

\* the first statement of the block of analyze: the missing entry is re-created
CheckEntry(t) ==
    /\ pc[t] = "locked" /\ call[t].op = "analyze"
    /\ proctoring_violations' = EnsureState(proctoring_violations, call[t].user)
    /\ pc' = [pc EXCEPT ![t] = "healed"]
    /\ UNCHANGED <<proctoring_lock, call, done, lastop, active, ncalls, run>>

\* the dict after "state = proctoring_violations[user_id]" and the rest of the
\* block; a missing key raises KeyError and nothing is written
BodyDict(d, u, f) == IF u \in DOMAIN d THEN Put(d, u, AnalyzeState(d[u], f)) ELSE d

\* what the call returns: the verdict, or the except handler's dict on KeyError
BodyReturn(d, u, f) == IF u \in DOMAIN d THEN AnalyzeVerdict(d[u], f) ELSE ServerError

\* "state = proctoring_violations[user_id]" and the rest of the block
AnalyzeBody(t) ==
    /\ pc[t] = "healed"
    /\ LET u   == call[t].user
           ret == BodyReturn(proctoring_violations, u, call[t].frame)
       IN  /\ proctoring_violations' = BodyDict(proctoring_violations, u, call[t].frame)
           /\ run' = [run EXCEPT ![u] =
                         IF ret.success
                         THEN RunAfter(run[u], call[t].frame, ret.cheating_detected)
                         ELSE run[u]]
           /\ Leave(t, ret)
    /\ UNCHANGED active

SplitNext ==
    \E t \in Threads :
        \/ \E u \in SplitUsers : SplitTake(t, u)
        \/ \E u \in SplitUsers : SplitSubmit(t, u)
        \/ \E u \in SplitUsers : \E f \in ConcFrames : SplitAnalyze(t, u, f)
        \/ Acquire(t)
        \/ InitializeLocked(t)
        \/ ClearBody(t)
        \/ CheckEntry(t)
        \/ AnalyzeBody(t)

SpecSplit == Init /\ [][SplitNext]_vars

(* ======================= properties ======================= *)
Last == done[SeqThread]

Compliant(f) == f.num_faces = 1 /\ f.yaw = 0 /\ f.pitch = 0

Score(u) == proctoring_violations[u].cheat_percentage

\* C1: a zero-face analysis returns cheating_detected exactly when the
\* resulting no_face_streak has reached 3: the 1st and 2nd consecutive
\* zero-face frames return false, the 3rd and every further one returns true
\* with the reason "No face detected (N/3)" carrying the streak N, whatever
\* the stored score and flag are.
C1_NoFaceVerdict ==
    (Last.call.op = "analyze" /\ Last.call.frame.num_faces = 0) =>
        LET u == Last.call.user
            n == run[u].no_face
        IN  /\ u \in DOMAIN proctoring_violations
            /\ proctoring_violations[u].no_face_streak = n
            /\ Last.ret.success
            /\ Last.ret.cheating_detected = (n >= 3)
            /\ n >= 3 => Last.ret.reason = Reason("No face detected", n)

\* the 4th consecutive zero-face frame is flagged while the stored score is
\* strictly between 0 and the threshold and the stored flag is 0
C1_Witness ==
    /\ Last.call.op = "analyze" /\ Last.call.frame.num_faces = 0
    /\ Last.ret.cheating_detected
    /\ run[SeqUser].no_face = 4
    /\ Score(SeqUser) > 0 /\ Score(SeqUser) < CHEAT_THRESH
    /\ proctoring_violations[SeqUser].global_cheat_flag = 0

\* C2: from a freshly initialized session, a run of single-face frames that
\* all have the yaw flag set is answered with cheating_detected no later than
\* its 4th frame; when no frame of the run has the pitch flag, the first
\* cheating verdict comes exactly at the 4th frame.
C2_SustainedYawFlagged ==
    \A u \in Users :
        run[u].sustained >= 0 =>
            /\ run[u].sustained <= 4
            /\ run[u].sustained = 4 => run[u].hit
            /\ (run[u].yaw_only /\ run[u].sustained < 4) => ~run[u].hit

\* a yaw-only run from initialize has just been flagged at its 4th frame
C2_Witness ==
    /\ run[SeqUser].sustained = 4 /\ run[SeqUser].hit /\ run[SeqUser].yaw_only
    /\ Last.call.op = "analyze" /\ Last.ret.cheating_detected
    /\ Last.ret.reason = Reason("Head turned away", 0)

\* C3 as stated: every analysis of a compliant single-face frame leaves the
\* stored score less than or equal to the score before it.
C3_ScoreNeverIncreases ==
    [][\A f \in Frames :
          (/\ Compliant(f)
           /\ SeqUser \in DOMAIN proctoring_violations
           /\ Analyze(SeqThread, SeqUser, f))
          => proctoring_violations'[SeqUser].cheat_percentage <= Score(SeqUser)]_vars

\* C3 amended: an analysis of a compliant single-face frame lowers a stored
\* score of at least 0.01 strictly, never below 0.01/1.01, and sets a stored
\* score below 0.01 (the initial 0.0 included) to 0.01: compliant frames bring
\* the score down to the floor 0.01, not to 0.
C3_DecayToFloor ==
    [][\A f \in Frames :
          (/\ Compliant(f)
           /\ SeqUser \in DOMAIN proctoring_violations
           /\ Analyze(SeqThread, SeqUser, f))
          => LET old == Score(SeqUser)
                 new == proctoring_violations'[SeqUser].cheat_percentage
             IN  /\ old >= AVG_FLOOR =>
                       (new < old /\ new >= DivRound(AVG_FLOOR, SLOW_DECAY_DIVISOR))
                 /\ old < AVG_FLOOR => new = AVG_FLOOR]_vars

\* a compliant frame has just taken a flagged session's score from the
\* threshold down to threshold / 1.05
C3_Witness ==
    /\ Last.call.op = "analyze" /\ Compliant(Last.call.frame)
    /\ Last.after = "analyze"
    /\ Score(SeqUser) = DivRound(CHEAT_THRESH, FAST_DECAY_DIVISOR)

\* C4: right after an analysis that returned cheating_detected, the stored
\* score and the score returned in the verdict do not exceed CHEAT_THRESH.
C4_FlaggedScoreWithinThreshold ==
    (Last.call.op = "analyze" /\ Last.ret.cheating_detected) =>
        /\ Last.call.user \in DOMAIN proctoring_violations
        /\ Score(Last.call.user) <= CHEAT_THRESH
        /\ Last.ret.head_pose_score <= CHEAT_THRESH

\* a single-face frame was flagged and its score was cut back to the threshold
C4_Witness ==
    /\ Last.call.op = "analyze" /\ Last.call.frame.num_faces = 1
    /\ Last.ret.cheating_detected
    /\ Score(SeqUser) = CHEAT_THRESH
    /\ Last.ret.head_pose_score = CHEAT_THRESH

\* C5: the dict holds an entry for a user only while the user has an active
\* attempt: none before take has called initialize and none after submit or
\* cancel has called clear, under every interleaving of the three calls.
C5_EntryOnlyWhileActive ==
    \A u \in Users : u \in DOMAIN proctoring_violations => active[u]

\* C6: an analysis that directly follows clear (or initialize) of the same
\* user returns the verdict and leaves the state that the frame gives on the
\* dict written by initialize; nothing of the earlier session remains.
C6_AnalyzeAfterClearIsFresh ==
    (Last.call.op = "analyze" /\ Last.after \in {"clear", "initialize"}) =>
        LET u == Last.call.user
            f == Last.call.frame
        IN  /\ u \in DOMAIN proctoring_violations
            /\ proctoring_violations[u] = AnalyzeState(InitialState, f)
            /\ Last.ret = AnalyzeVerdict(InitialState, f)

\* a frame with the yaw flag, analyzed right after clear, scores 0.4 with a
\* head pose streak of 1, as on a new session
C6_Witness ==
    /\ Last.call.op = "analyze" /\ Last.after = "clear"
    /\ Last.call.frame.num_faces = 1 /\ Last.call.frame.yaw = 1
    /\ Last.call.frame.pitch = 0
    /\ Score(SeqUser) = 4000
    /\ proctoring_violations[SeqUser].head_pose_violation_streak = 1
    /\ ~Last.ret.cheating_detected

\* C7: a thread is inside a with block of initialize, clear or analyze only
\* while it holds proctoring_lock, so no two threads are inside at once, and
\* the dict changes only in a step of the thread that holds the lock.
C7_MutualExclusion ==
    /\ [](/\ \A t \in Threads : pc[t] = "locked" => proctoring_lock = t
          /\ proctoring_lock # Free => pc[proctoring_lock] = "locked")
    /\ [][proctoring_violations' # proctoring_violations =>
              /\ proctoring_lock # Free
              /\ pc[proctoring_lock] = "locked"
              /\ pc'[proctoring_lock] = "idle"]_vars

\* one thread is inside its with block while the other waits for the lock
\* with a call for a different user
C7_Witness ==
    \E t \in Threads : \E s \in Threads \ {t} :
        /\ pc[t] = "locked" /\ pc[s] = "wait"
        /\ call[t].user # call[s].user

\* C8: initialize leaves the user with both face streaks, the head pose
\* streak, the flag and the score at zero whatever the user had before, can
\* always be called, and a second initialize gives the same state.
C8_InitializeResets ==
    /\ ENABLED Initialize(SeqThread, SeqUser)
    /\ Last.call.op = "initialize" =>
           /\ Last.call.user \in DOMAIN proctoring_violations
           /\ proctoring_violations[Last.call.user] =
                  [no_face_streak |-> 0, multi_face_streak |-> 0,
                   cheat_percentage |-> 0, global_cheat_flag |-> 0,
                   head_pose_violation_streak |-> 0]

\* initialize has just overwritten a session that an analysis had worked on
C8_Witness ==
    /\ Last.call.op = "initialize" /\ Last.after = "analyze"
    /\ proctoring_violations[SeqUser].cheat_percentage = 0

\* C9: clear removes the user's entry when there is one and changes nothing
\* when there is none; every other user's entry is left as it was.
C9_ClearRemovesOnlyUser ==
    [][\A t \in Threads :
          ClearLocked(t) =>
              LET u == call[t].user
              IN  /\ u \notin DOMAIN proctoring_violations'
                  /\ u \notin DOMAIN proctoring_violations =>
                         proctoring_violations' = proctoring_violations
                  /\ \A v \in Users \ {u} :
                         /\ v \in DOMAIN proctoring_violations' <=>
                                v \in DOMAIN proctoring_violations
                         /\ v \in DOMAIN proctoring_violations =>
                                proctoring_violations'[v] = proctoring_violations[v]]_vars

\* clear has just removed an entry that an analysis had worked on while the
\* other user's analyzed entry is still there
C9_Witness ==
    \E t \in Threads : \E v \in Users :
        /\ done[t].call.op = "clear" /\ done[t].after = "analyze"
        /\ lastop[done[t].call.user] = "clear"
        /\ done[t].call.user \notin DOMAIN proctoring_violations
        /\ v # done[t].call.user
        /\ v \in DOMAIN proctoring_violations
        /\ lastop[v] = "analyze"

\* C10: an analysis for a user that has no entry (never initialized, or
\* cleared) succeeds: it returns a verdict with success set, and leaves the
\* entry that the frame gives on an all-zero state.
C10_AnalyzeWithoutEntry ==
    (Last.call.op = "analyze" /\ Last.after \in {"none", "clear"}) =>
        LET u == Last.call.user
            f == Last.call.frame
            zero == [no_face_streak |-> 0, multi_face_streak |-> 0,
                     cheat_percentage |-> 0, global_cheat_flag |-> 0,
                     head_pose_violation_streak |-> 0]
        IN  /\ Last.ret.success
            /\ Last.ret.num_faces = f.num_faces
            /\ u \in DOMAIN proctoring_violations
            /\ proctoring_violations[u] = AnalyzeState(zero, f)
            /\ Last.ret.cheating_detected = AnalyzeVerdict(zero, f).cheating_detected
            /\ Last.ret.head_pose_score = Score(u)

\* the very first call for the user is an analysis of a zero-face frame
C10_Witness ==
    /\ Last.call.op = "analyze" /\ Last.after = "none"
    /\ Last.ret.success
    /\ Last.call.frame.num_faces = 0
    /\ proctoring_violations[SeqUser].no_face_streak = 1

\* C11: a multi-face analysis returns cheating_detected exactly when the
\* resulting multi_face_streak has reached 3: the 1st and 2nd consecutive
\* multi-face frames return false, the 3rd and every further one returns
\* true with the reason "Multiple faces detected (N/3)".
C11_MultiFaceVerdict ==
    (Last.call.op = "analyze" /\ Last.call.frame.num_faces > 1) =>
        LET u == Last.call.user
            n == run[u].multi_face
        IN  /\ u \in DOMAIN proctoring_violations
            /\ proctoring_violations[u].multi_face_streak = n
            /\ Last.ret.success
            /\ Last.ret.cheating_detected = (n >= 3)
            /\ n >= 3 => Last.ret.reason = Reason("Multiple faces detected", n)
            /\ n < 3 => Last.ret.reason = Reason("OK", 0)

\* the 4th consecutive multi-face frame is flagged on a session whose stored
\* flag is 0
C11_Witness ==
    /\ Last.call.op = "analyze" /\ Last.call.frame.num_faces > 1
    /\ Last.ret.cheating_detected
    /\ Last.ret.reason = Reason("Multiple faces detected", 4)
    /\ proctoring_violations[SeqUser].multi_face_streak = 4
    /\ proctoring_violations[SeqUser].global_cheat_flag = 0

\* C12: initialize directly followed by an analysis of a compliant single-face
\* frame returns cheating_detected = false, and the resulting score is the
\* floor 0.01 of avg(), i.e. approximately 0.
C12_FirstCompliantFrame ==
    (/\ Last.call.op = "analyze" /\ Compliant(Last.call.frame)
     /\ Last.after = "initialize") =>
        /\ ~Last.ret.cheating_detected
        /\ Last.ret.reason = Reason("OK", 0)
        /\ Score(Last.call.user) <= AVG_FLOOR
        /\ Last.ret.head_pose_score = Score(Last.call.user)
        /\ proctoring_violations[Last.call.user].global_cheat_flag = 0

\* the compliant frame after initialize has been analyzed: score 0.01, no flag
C12_Witness ==
    /\ Last.call.op = "analyze" /\ Compliant(Last.call.frame)
    /\ Last.after = "initialize"
    /\ Last.ret.success /\ ~Last.ret.cheating_detected
    /\ Last.ret.head_pose_score = AVG_FLOOR

\* C13: an analysis of a frame that cannot be analyzed (no frame data,
\* malformed base64, undecodable image, exception in steps 1 and 2) returns
\* success = false with cheating_detected = false, and leaves the dict as it
\* was: no entry is created or modified.
C13_RejectedFrameChangesNothing ==
    [][\A k \in RejectKinds :
          AnalyzeRejected(SeqThread, SeqUser, k) =>
              /\ proctoring_violations' = proctoring_violations
              /\ ~done'[SeqThread].ret.success
              /\ ~done'[SeqThread].ret.cheating_detected
              /\ done'[SeqThread].ret.reason.kind \in
                     {"Input Error", "Decode Error", "Server Error"}]_vars

\* an undecodable frame was rejected for a user whose entry clear had removed:
\* there is still no entry
C13_Witness ==
    /\ Last.call.op = "analyze_error" /\ Last.after = "clear"
    /\ Last.ret.reason = Reason("Decode Error", 0)
    /\ ~Last.ret.success /\ ~Last.ret.cheating_detected
    /\ SeqUser \notin DOMAIN proctoring_violations

\* C14: after a zero-face or multi-face analysis whose streak has reached its
\* limit, the stored score equals the cheating threshold and so does the score
\* returned in the verdict, whatever the score was before.
C14_FaceCountViolationSnapsScore ==
    (/\ Last.call.op = "analyze" /\ Last.call.frame.num_faces # 1
     /\ Last.ret.cheating_detected) =>
        /\ Score(Last.call.user) = CHEAT_THRESH
        /\ Last.ret.head_pose_score = CHEAT_THRESH

\* C15 as stated: after a zero-face or multi-face analysis whose streak is
\* below its limit, the stored score and the returned score are 0.0.
C15_BelowLimitScoreIsZero ==
    (/\ Last.call.op = "analyze" /\ Last.call.frame.num_faces # 1
     /\ ~Last.ret.cheating_detected) =>
        /\ Score(Last.call.user) = 0
        /\ Last.ret.head_pose_score = 0

\* C15 amended: a zero-face or multi-face analysis whose streak is below its
\* limit leaves the stored score and the stored flag as they were before the
\* call (0.0 on a new session) and returns that unchanged score.
C15_BelowLimitScoreUnchanged ==
    [][\A f \in Frames :
          (/\ f.num_faces # 1
           /\ Analyze(SeqThread, SeqUser, f)
           /\ ~done'[SeqThread].ret.cheating_detected)
          => LET old == IF SeqUser \in DOMAIN proctoring_violations
                        THEN proctoring_violations[SeqUser]
                        ELSE ReinitializedState
                 new == proctoring_violations'[SeqUser]
             IN  /\ new.cheat_percentage = old.cheat_percentage
                 /\ new.global_cheat_flag = old.global_cheat_flag
                 /\ done'[SeqThread].ret.head_pose_score = old.cheat_percentage]_vars

\* the 2nd zero-face frame in a row was analyzed on a session that keeps a
\* score above 0
C15_Witness ==
    /\ Last.call.op = "analyze" /\ Last.call.frame.num_faces = 0
    /\ ~Last.ret.cheating_detected
    /\ run[SeqUser].no_face = 2
    /\ Score(SeqUser) > 0
    /\ Last.ret.head_pose_score = Score(SeqUser)

\* what a compliant frame f would leave as score on state s if s were not flagged
UnflaggedDecay(s, f) == NewCheatPercentage([s EXCEPT !.global_cheat_flag = 0], f)

\* C16 as stated: on a compliant single-face frame a flagged session's score
\* decays by a smaller fraction than the same score on an unflagged session.
C16_FlaggedDecaysSlower ==
    [][\A f \in Frames :
          (/\ Compliant(f)
           /\ SeqUser \in DOMAIN proctoring_violations
           /\ proctoring_violations[SeqUser].global_cheat_flag = 1
           /\ Analyze(SeqThread, SeqUser, f))
          => proctoring_violations'[SeqUser].cheat_percentage >
                 UnflaggedDecay(proctoring_violations[SeqUser], f)]_vars

\* C16 amended: on a compliant single-face frame a flagged session's score
\* decays by a larger fraction (divided by FAST_DECAY_DIVISOR 1.05) than the
\* same score on an unflagged session (divided by 1.01): recovery from the
\* flagged state is faster than ordinary decay, for that one frame.
C16_FlaggedDecaysFaster ==
    [][\A f \in Frames :
          (/\ Compliant(f)
           /\ SeqUser \in DOMAIN proctoring_violations
           /\ proctoring_violations[SeqUser].global_cheat_flag = 1
           /\ Analyze(SeqThread, SeqUser, f))
          => LET old == Score(SeqUser)
                 new == proctoring_violations'[SeqUser].cheat_percentage
             IN  /\ new < UnflaggedDecay(proctoring_violations[SeqUser], f)
                 /\ new = DivRound(old, FAST_DECAY_DIVISOR)
                 /\ UnflaggedDecay(proctoring_violations[SeqUser], f) =
                        DivRound(old, SLOW_DECAY_DIVISOR)
                 /\ proctoring_violations'[SeqUser].global_cheat_flag = 0]_vars

\* the first compliant frame of a flagged session has been analyzed: verdict
\* OK, flag cleared, score below what the slow divisor gives
C16_Witness ==
    /\ Last.call.op = "analyze" /\ Compliant(Last.call.frame)
    /\ Last.ret.reason = Reason("OK", 0)
    /\ proctoring_violations[SeqUser].global_cheat_flag = 0
    /\ Last.ret.head_pose_score = DivRound(CHEAT_THRESH, FAST_DECAY_DIVISOR)
    /\ Last.ret.head_pose_score < DivRound(CHEAT_THRESH, SLOW_DECAY_DIVISOR)

PoseViolating(f) == f.num_faces = 1 /\ (f.yaw = 1 \/ f.pitch = 1)

\* the analyze call just completed for SeqUser was of a compliant single-face
\* frame and returned cheating_detected = false
JustCompliantOK ==
    /\ Last.call.op = "analyze" /\ Last.call.user = SeqUser
    /\ Compliant(Last.call.frame) /\ ~Last.ret.cheating_detected
    /\ lastop[SeqUser] = "analyze"

\* headroom below the threshold that one pose-violating frame cannot use up
\* after a compliant one: 0.1 * (0.2 + one streak penalty of 0.3) = 0.05
JitterHeadroom == (BaseCurrentVal(0, 0, 1) + STREAK_PENALTY_INCREMENT) \div 10

\* C17 as stated: one pose-violating single-face frame directly after a
\* compliant single-face frame answered cheating_detected = false is also
\* answered cheating_detected = false, from every reachable session state.
C17_JitterNeverFlips ==
    [][\A f \in Frames :
          (JustCompliantOK /\ PoseViolating(f) /\ Analyze(SeqThread, SeqUser, f))
          => ~done'[SeqThread].ret.cheating_detected]_vars

\* C17 amended: one pose-violating single-face frame directly after a
\* compliant single-face frame answered cheating_detected = false is also
\* answered cheating_detected = false provided the stored score is below
\* CHEAT_THRESH - 0.05 (below 0.55); it raises the score by at most 0.05, or
\* to at most 0.5 from a score of 0.
C17_JitterBelowHeadroom ==
    [][\A f \in Frames :
          (/\ JustCompliantOK /\ PoseViolating(f)
           /\ Score(SeqUser) < CHEAT_THRESH - JitterHeadroom
           /\ Analyze(SeqThread, SeqUser, f))
          => /\ ~done'[SeqThread].ret.cheating_detected
             /\ proctoring_violations'[SeqUser].global_cheat_flag = 0
             /\ proctoring_violations'[SeqUser].cheat_percentage
                    <= Score(SeqUser) + JitterHeadroom]_vars

\* a pose-violating frame directly after a compliant, unflagged one has been
\* analyzed and was not flagged
C17_Witness ==
    /\ Last.call.op = "analyze" /\ PoseViolating(Last.call.frame)
    /\ run[SeqUser].after_ok /\ Last.after = "analyze"
    /\ ~Last.ret.cheating_detected
    /\ Score(SeqUser) > JitterHeadroom

\* the state analyze works on for SeqUser: the entry, or the one it re-creates
StateBefore ==
    IF SeqUser \in DOMAIN proctoring_violations
    THEN proctoring_violations[SeqUser]
    ELSE ReinitializedState

\* C18 as stated: after a single-face analyze call the verdict is cheating
\* exactly when the score computed for the frame is >= CHEAT_THRESH; then the
\* stored score is the threshold and the flag is set; otherwise the flag is
\* clear and cheating_detected is false.
C18_FlaggedAtOrAboveThreshold ==
    [][\A f \in Frames :
          (f.num_faces = 1 /\ Analyze(SeqThread, SeqUser, f))
          => LET new == NewCheatPercentage(StateBefore, f)
                 s   == proctoring_violations'[SeqUser]
                 ret == done'[SeqThread].ret
             IN  /\ ret.cheating_detected <=> (new >= CHEAT_THRESH)
                 /\ ret.cheating_detected =>
                        (s.cheat_percentage = CHEAT_THRESH /\ s.global_cheat_flag = 1)
                 /\ ~ret.cheating_detected => s.global_cheat_flag = 0]_vars

\* C18 amended: after a single-face analyze call the verdict is cheating
\* exactly when the score computed for the frame is strictly greater than
\* CHEAT_THRESH; then the stored score is the threshold and the flag is set;
\* otherwise the flag is clear, cheating_detected is false and the stored score
\* is the computed one, which may equal the threshold.
C18_FlaggedAboveThreshold ==
    [][\A f \in Frames :
          (f.num_faces = 1 /\ Analyze(SeqThread, SeqUser, f))
          => LET new == NewCheatPercentage(StateBefore, f)
                 s   == proctoring_violations'[SeqUser]
                 ret == done'[SeqThread].ret
             IN  /\ ret.cheating_detected <=> (new > CHEAT_THRESH)
                 /\ ret.cheating_detected =>
                        (s.cheat_percentage = CHEAT_THRESH /\ s.global_cheat_flag = 1)
                 /\ ~ret.cheating_detected =>
                        (s.global_cheat_flag = 0 /\ s.cheat_percentage = new)]_vars

\* a pose-violating frame has brought the score to exactly the threshold and
\* was not flagged
C18_Witness ==
    /\ Last.call.op = "analyze" /\ PoseViolating(Last.call.frame)
    /\ Last.call.frame.round_up = 0
    /\ ~Last.ret.cheating_detected
    /\ Last.ret.head_pose_score = CHEAT_THRESH
    /\ proctoring_violations[SeqUser].global_cheat_flag = 0

NonZeroStreaks(s) ==
    (IF s.no_face_streak # 0 THEN 1 ELSE 0)
    + (IF s.multi_face_streak # 0 THEN 1 ELSE 0)
    + (IF s.head_pose_violation_streak # 0 THEN 1 ELSE 0)

\* C19: in every reachable session state at most one of no_face_streak,
\* multi_face_streak and head_pose_violation_streak is non-zero; a single-face
\* frame leaves both face-count streaks at 0, a zero-face frame leaves the
\* multi-face and head-pose streaks at 0, a multi-face frame leaves the no-face
\* and head-pose streaks at 0.
C19_AtMostOneStreak ==
    /\ \A u \in DOMAIN proctoring_violations :
           NonZeroStreaks(proctoring_violations[u]) <= 1
    /\ Last.call.op = "analyze" =>
           LET s == proctoring_violations[Last.call.user]
               n == Last.call.frame.num_faces
           IN  /\ n = 1 => (s.no_face_streak = 0 /\ s.multi_face_streak = 0)
               /\ n = 0 => (s.multi_face_streak = 0 /\ s.head_pose_violation_streak = 0
                            /\ s.no_face_streak > 0)
               /\ n > 1 => (s.no_face_streak = 0 /\ s.head_pose_violation_streak = 0
                            /\ s.multi_face_streak > 0)

\* a multi-face frame has been analyzed on a session that earlier saw pose
\* violations (score above 0): only the multi-face streak is non-zero
C19_Witness ==
    /\ Last.call.op = "analyze" /\ Last.call.frame.num_faces > 1
    /\ Last.after = "analyze"
    /\ proctoring_violations[SeqUser].multi_face_streak = 2
    /\ NonZeroStreaks(proctoring_violations[SeqUser]) = 1
    /\ Score(SeqUser) > 0

\* C20 as stated: after every single-face analyze call whose frame has a pose
\* violation the stored head_pose_violation_streak equals
\* min(previous streak + 1, 5); the streak never exceeds 5.
C20_StreakIncrementsCapped ==
    /\ [](\A u \in DOMAIN proctoring_violations :
             proctoring_violations[u].head_pose_violation_streak
                 <= MAX_HEAD_POSE_STREAK_PENALTY)
    /\ [][\A f \in Frames :
             (PoseViolating(f) /\ Analyze(SeqThread, SeqUser, f))
             => proctoring_violations'[SeqUser].head_pose_violation_streak =
                    Min(StateBefore.head_pose_violation_streak + 1,
                        MAX_HEAD_POSE_STREAK_PENALTY)]_vars

\* C20 amended: after a single-face analyze call whose frame has a pose
\* violation the stored head_pose_violation_streak equals
\* min(previous streak + 1, 5) when the call returns cheating_detected = false
\* and 0 when it returns cheating_detected = true; the streak never exceeds 5.
C20_StreakIncrementsUnlessFlagged ==
    /\ [](\A u \in DOMAIN proctoring_violations :
             proctoring_violations[u].head_pose_violation_streak
                 <= MAX_HEAD_POSE_STREAK_PENALTY)
    /\ [][\A f \in Frames :
             (PoseViolating(f) /\ Analyze(SeqThread, SeqUser, f))
             => proctoring_violations'[SeqUser].head_pose_violation_streak =
                    IF done'[SeqThread].ret.cheating_detected
                    THEN 0
                    ELSE Min(StateBefore.head_pose_violation_streak + 1,
                             MAX_HEAD_POSE_STREAK_PENALTY)]_vars

\* a pose-violating frame was analyzed without a flag and the stored streak
\* has reached MAX_HEAD_POSE_STREAK_PENALTY
C20_Witness ==
    /\ Last.call.op = "analyze" /\ PoseViolating(Last.call.frame)
    /\ ~Last.ret.cheating_detected
    /\ proctoring_violations[SeqUser].head_pose_violation_streak =
           MAX_HEAD_POSE_STREAK_PENALTY

NeutralFrame == [num_faces |-> 1, yaw |-> 0, pitch |-> 0, round_up |-> 0]

\* C21: a single-face frame counts as a pose violation exactly when |yaw| > 50
\* or pitch < -15; a frame with |yaw| <= 50 and pitch >= -15, however far the
\* pitch is upward, gets the verdict and the state transition of a
\* neutral-pose frame from the same state.
C21_PoseViolationThresholds ==
    [][\A m \in Measurements :
          AnalyzePose(SeqThread, SeqUser, m)
          => LET f      == done'[SeqThread].call.frame
                 inside == /\ m.head_yaw <= 50 /\ m.head_yaw >= 0 - 50
                           /\ m.head_pitch >= 0 - 15
             IN  /\ (f.yaw = 1 \/ f.pitch = 1) <=> ~inside
                 /\ f.yaw = 1 <=> (m.head_yaw > 50 \/ m.head_yaw < 0 - 50)
                 /\ f.pitch = 1 <=> m.head_pitch < 0 - 15
                 /\ inside =>
                        /\ proctoring_violations' =
                               AnalyzeDict(proctoring_violations, SeqUser, NeutralFrame)
                        /\ done'[SeqThread].ret =
                               AnalyzeReturn(proctoring_violations, SeqUser,
                                             NeutralFrame)]_vars

\* a frame at the yaw threshold with a far upward pitch has been analyzed on a
\* flagged session and was treated as compliant: verdict OK, fast decay
C21_Witness ==
    /\ Last.call.op = "analyze" /\ Last.after = "analyze"
    /\ Last.call.head_yaw = HEAD_POSE_YAW_THRESHOLD
    /\ Last.call.head_pitch > HEAD_POSE_PITCH_UP_THRESHOLD
    /\ Last.ret.reason = Reason("OK", 0)
    /\ Last.ret.head_pose_score = DivRound(CHEAT_THRESH, FAST_DECAY_DIVISOR)

MentionsTurnedAway(r) ==
    r.kind \in {"Head turned away", "Head turned away and looking down"}

MentionsLookingDown(r) ==
    r.kind \in {"Head looking down", "Head turned away and looking down"}

\* C22: whenever a single-face analyze call returns cheating_detected = true
\* its reason says 'turned away' iff the yaw flag is set and 'looking down'
\* iff the pitch flag is set (both when both are set), and at least one is
\* set; a face-count violation verdict never carries a head-pose reason.
C22_ReasonNamesViolations ==
    (Last.call.op = "analyze" /\ Last.ret.cheating_detected) =>
        LET f == Last.call.frame
            r == Last.ret.reason
        IN  /\ f.num_faces = 1 =>
                   /\ MentionsTurnedAway(r) <=> f.yaw = 1
                   /\ MentionsLookingDown(r) <=> f.pitch = 1
                   /\ MentionsTurnedAway(r) \/ MentionsLookingDown(r)
            /\ f.num_faces = 0 => r.kind = "No face detected"
            /\ f.num_faces > 1 => r.kind = "Multiple faces detected"

\* a frame with both flags set has been flagged and its reason names both
C22_Witness ==
    /\ Last.call.op = "analyze" /\ Last.ret.cheating_detected
    /\ Last.call.frame.num_faces = 1
    /\ Last.call.frame.yaw = 1 /\ Last.call.frame.pitch = 1
    /\ Last.ret.reason.kind = "Head turned away and looking down"

C24_NoFalsePositive ==
    (/\ Last.call.op = "analyze"
     /\ run[Last.call.user].clean
     /\ run[Last.call.user].no_face < MAX_CONSECUTIVE_NO_FACE
     /\ run[Last.call.user].multi_face < MAX_CONSECUTIVE_MULTI_FACE) =>
        /\ ~Last.ret.cheating_detected
        /\ Last.ret.reason = Reason("OK", 0)
        /\ Score(Last.call.user) <= AVG_FLOOR
        /\ proctoring_violations[Last.call.user].global_cheat_flag = 0

\* compliant frames and then two zero-face frames have been analyzed since
\* initialize, none flagged
C24_Witness ==
    /\ Last.call.op = "analyze" /\ Last.call.frame.num_faces = 0
    /\ run[SeqUser].clean /\ run[SeqUser].no_face = 2
    /\ ~Last.ret.cheating_detected
    /\ Score(SeqUser) = AVG_FLOOR

\* C25: from any reachable state a successful single-face analyze call with no
\* pose violation returns cheating_detected = false and leaves the flag clear
\* and the head-pose streak at 0 (so the first compliant frame un-flags a
\* flagged session); no verdict ever carries the 'Suspicious activity' reason.
C25_CompliantFrameClears ==
    /\ \A t \in Threads : done[t].ret.reason.kind # "Suspicious activity"
    /\ (Last.call.op = "analyze" /\ Compliant(Last.call.frame)) =>
           /\ Last.ret.success
           /\ ~Last.ret.cheating_detected
           /\ Last.ret.reason = Reason("OK", 0)
           /\ proctoring_violations[Last.call.user].global_cheat_flag = 0
           /\ proctoring_violations[Last.call.user].head_pose_violation_streak = 0

\* a compliant frame has been analyzed right after a flagged one: the score
\* has left the threshold by the fast divisor, flag and streak are clear
C25_Witness ==
    /\ Last.call.op = "analyze" /\ Compliant(Last.call.frame)
    /\ ~Last.ret.cheating_detected
    /\ Score(SeqUser) = DivRound(CHEAT_THRESH, FAST_DECAY_DIVISOR)
    /\ proctoring_violations[SeqUser].global_cheat_flag = 0
    /\ proctoring_violations[SeqUser].head_pose_violation_streak = 0

\* C26: once a single-face analyze call has returned cheating_detected = true,
\* a directly following single-face frame that still has a pose violation
\* (yaw, pitch or both) also returns cheating_detected = true and leaves the
\* stored score on the threshold; so the verdict stays true until a compliant
\* single-face frame or a face-count frame arrives.
C26_FlagHeldWhileViolating ==
    [][\A f \in Frames :
          (/\ Last.call.op = "analyze" /\ Last.call.frame.num_faces = 1
           /\ Last.ret.cheating_detected
           /\ PoseViolating(f)
           /\ Analyze(SeqThread, SeqUser, f))
          => /\ done'[SeqThread].ret.cheating_detected
             /\ done'[SeqThread].ret.head_pose_score = CHEAT_THRESH
             /\ proctoring_violations'[SeqUser].cheat_percentage = CHEAT_THRESH
             /\ proctoring_violations'[SeqUser].global_cheat_flag = 1]_vars

\* two pose-violating single-face frames in a row have both been flagged, the
\* second one with the pitch flag only
C26_Witness ==
    /\ Last.call.op = "analyze" /\ PoseViolating(Last.call.frame)
    /\ Last.call.frame.yaw = 0
    /\ run[SeqUser].flagged /\ run[SeqUser].after_flagged
    /\ Last.ret.cheating_detected
    /\ Score(SeqUser) = CHEAT_THRESH

\* C27: from any reachable state a run of consecutive single-face frames that
\* each have a pose violation returns cheating_detected = true no later than
\* its 6th frame: at most 5 such frames in a row are answered false.
C27_FlaggedBySixthFrame ==
    \A u \in Users :
        /\ run[u].pose_run <= 5
        /\ run[u].pose_hit <= 6

\* a run of pose-violating frames has been flagged at its 6th frame, not before
C27_Witness ==
    /\ Last.call.op = "analyze" /\ PoseViolating(Last.call.frame)
    /\ Last.ret.cheating_detected
    /\ run[SeqUser].pose_hit = 6

\* C28: in every reachable state a session whose global_cheat_flag is set has
\* a stored score of exactly CHEAT_THRESH.
C28_FlaggedScorePinned ==
    \A u \in DOMAIN proctoring_violations :
        proctoring_violations[u].global_cheat_flag = 1 =>
            proctoring_violations[u].cheat_percentage = CHEAT_THRESH

\* a flagged session has gone through a zero-face frame: flag and score are
\* both still in place
C28_Witness ==
    /\ Last.call.op = "analyze" /\ Last.call.frame.num_faces = 0
    /\ ~Last.ret.cheating_detected
    /\ proctoring_violations[SeqUser].global_cheat_flag = 1
    /\ Score(SeqUser) = CHEAT_THRESH

\* C29: concurrent zero-face analyze calls for one user, in any interleaving
\* and with no other call for that user, lose no update: the stored
\* no_face_streak equals the number of such calls completed (n calls raise it
\* by n), each call worked on a streak value no other call worked on, and its
\* verdict is the one for that value.
C29_NoLostUpdate ==
    /\ \A u \in DOMAIN proctoring_violations :
           proctoring_violations[u].no_face_streak = run[u].no_face
    /\ \A t \in Threads : \A s \in Threads \ {t} :
           (/\ done[t].call.op = "analyze" /\ done[s].call.op = "analyze"
            /\ done[t].call.user = done[s].call.user)
               => done[t].call.read # done[s].call.read
    /\ \A t \in Threads :
           done[t].call.op = "analyze" =>
               done[t].ret.cheating_detected
                   = (done[t].call.read + 1 >= MAX_CONSECUTIVE_NO_FACE)

\* two zero-face analyses of one user were in flight together, both have
\* completed, and the streak counts both
C29_Witness ==
    /\ \A t \in Threads :
           /\ pc[t] = "idle"
           /\ done[t].call.op = "analyze" /\ done[t].call.user = SeqUser
    /\ \E t \in Threads : done[t].call.overlapped
    /\ ncalls = 2
    /\ proctoring_violations[SeqUser].no_face_streak = 2

StateFields == {"no_face_streak", "multi_face_streak", "cheat_percentage",
                "global_cheat_flag", "head_pose_violation_streak"}

\* C30: when clear(user) or initialize(user) runs concurrently with
\* analyze(user), in every interleaving analyze completes with a successful
\* verdict (no missing-key failure), and the user's entry is either absent or
\* a record with all five fields.
C30_AnalyzeSurvivesClear ==
    /\ \A t \in Threads :
           done[t].call.op = "analyze" =>
               (done[t].ret.success /\ done[t].ret # ServerError)
    /\ \A t \in Threads :
           pc[t] = "healed" => call[t].user \in DOMAIN proctoring_violations
    /\ \A u \in DOMAIN proctoring_violations :
           DOMAIN proctoring_violations[u] = StateFields

\* an analysis that was in flight together with a clear of the same user has
\* completed after the clear was applied: successful, on a re-created entry
C30_Witness ==
    \E t \in Threads : \E s \in Threads \ {t} :
        /\ done[t].call.op = "analyze" /\ done[s].call.op = "clear"
        /\ done[t].call.user = done[s].call.user
        /\ done[t].call.overlapped \/ done[s].call.overlapped
        /\ done[t].after = "clear"
        /\ done[t].ret.success
        /\ pc[t] = "idle" /\ pc[s] = "idle"
        /\ done[t].call.user \in DOMAIN proctoring_violations

====
